---- MODULE Spec2Model ----
(***************************************************************************)
(* The batch loop of notebooks/ct_protocol_analysis.ipynb: for every row   *)
(* of the input table it parses the eGFR cell, builds patient_info, calls  *)
(* generate_protocol_recommendations and appends one record to results;    *)
(* an exception in the try body is handled by appending an all-None        *)
(* record.  generate_protocol_recommendations lives in utils.py, which is  *)
(* not among the sources; it is modelled from the rule table of the        *)
(* specification (sections 4.2 and 8).                                     *)
(***************************************************************************)
EXTENDS Integers, Sequences, FiniteSets, TLC

VARIABLES columns, rows, idx, pc, egfr, patient_info, completions, results

vars == <<columns, rows, idx, pc, egfr, patient_info, completions, results>>

(***************************************************************************)
(* Python values.  Every value is a record with the same three fields, so  *)
(* that values of different Python types can be compared.                  *)
(*   k = "nan"     pandas missing cell (NaN)                               *)
(*   k = "none"    Python None                                             *)
(*   k = "str"     a string, s its text                                    *)
(*   k = "int"     a Python int, n its value                               *)
(*   k = "float"   a float, n its value (only whole values occur here)     *)
(*   k = "unbound" a name that has not been assigned yet                   *)
(***************************************************************************)
NaN == [k |-> "nan", s |-> "", n |-> 0]
None == [k |-> "none", s |-> "", n |-> 0]
Unbound == [k |-> "unbound", s |-> "", n |-> 0]
PyStr(t) == [k |-> "str", s |-> t, n |-> 0]
PyInt(i) == [k |-> "int", s |-> "", n |-> i]
PyFloat(i) == [k |-> "float", s |-> "", n |-> i]

IsNumber(v) == v.k \in {"int", "float"}

\* Python's ==: an int and a float of the same value are equal (90 == 90.0),
\* strings are equal when their text is, NaN equals nothing.
PyEq(a, b) ==
    \/ IsNumber(a) /\ IsNumber(b) /\ a.n = b.n
    \/ a.k = "str" /\ b.k = "str" /\ a.s = b.s
    \/ a.k = "none" /\ b.k = "none"

(***************************************************************************)
(* The columns of the input table (README "Input Data Format", and the     *)
(* keys the loop reads).                                                   *)
(***************************************************************************)
ColStudy == "Study ID #"
ColLoc == "Location [IP, ER, OP]"
ColAge == "Age"
ColSex == "Sex"
ColExam == "CT Exam Requested"
ColClin == "Clinical Information/Reason for Scan"
ColPrior == "Previous adverse reaction to contrast (if YES, what type)"
ColEgfr == "eGFR (mL/min)"
ColCreat == "Creatinine (umol/L)"

AllColumns ==
    {ColStudy, ColLoc, ColAge, ColSex, ColExam, ColClin, ColPrior, ColEgfr, ColCreat}

\* The columns patient_info reads with row[...]: a missing one raises KeyError.
IndexedColumns == AllColumns \ {ColEgfr}

\* row.get(col): None when the table has no such column.
RowGet(row, col) == IF col \in columns THEN row[col] ELSE None

\* pd.isna(v): true of NaN and of None.
IsNa(v) == v.k \in {"nan", "none"}

\* str.strip() on the strings that occur as eGFR cells.
Strip(t) ==
    CASE t = " >90 " -> ">90"
      [] t = ">90 " -> ">90"
      [] t = " 15 " -> "15"
      [] OTHER -> t

\* The exception float() raises: ValueError for text that is no number
\* (TypeError for None; the handler catches both alike).
ValueError == [k |-> "ValueError", s |-> "", n |-> 0]

\* float(v): float() ignores surrounding whitespace; a float cell, NaN
\* included, converts to itself.
ToFloat(v) ==
    IF IsNumber(v) THEN PyFloat(v.n)
    ELSE IF v.k = "nan" THEN NaN
    ELSE IF v.k # "str" THEN ValueError
    ELSE CASE Strip(v.s) = "15" -> PyFloat(15)
           [] Strip(v.s) = "29" -> PyFloat(29)
           [] Strip(v.s) = "30" -> PyFloat(30)
           [] Strip(v.s) = "90" -> PyFloat(90)
           [] Strip(v.s) = "120" -> PyFloat(120)
           [] OTHER -> ValueError

\* no_data_variants, line 60.
no_data_variants == {"no data", "No data", "NO DATA", "No Data", ""}

\* "egfr_value in no_data_variants": list membership by ==.
InNoDataVariants(v) == v.k = "str" /\ v.s \in no_data_variants

IsGt90(v) == v.k = "str" /\ Strip(v.s) = ">90"

\* Mutants of ParseEgfr.
ParseEgfr_AnyStringIs90(v) ==
    IF IsNa(v) \/ InNoDataVariants(v) THEN PyStr("no data")
    ELSE IF v.k = "str" THEN PyInt(90)
    ELSE ToFloat(v)

ParseEgfr_NoGt90Branch(v) ==
    IF IsNa(v) \/ InNoDataVariants(v) THEN PyStr("no data")
    ELSE ToFloat(v)

ParseEgfr_NoDataIsZero(v) ==
    IF IsNa(v) \/ InNoDataVariants(v) THEN PyFloat(0)
    ELSE IF IsGt90(v) THEN PyInt(90)
    ELSE ToFloat(v)

\* Lines 57-70: the value assigned to egfr, or ValueError when float() raises.
ParseEgfr(v) ==
    IF IsNa(v) \/ InNoDataVariants(v) THEN PyStr("no data")
    ELSE IF IsGt90(v) THEN PyInt(90)
    ELSE ToFloat(v)

(***************************************************************************)
(* generate_protocol_recommendations (utils.py, not among the sources),    *)
(* modelled from the rule table of the specification, section 4.2.         *)
(* Free text is modelled by the trigger phrases it contains.               *)
(***************************************************************************)
EgfrThreshold == 30

Keywords(t) ==
    CASE t = "CT chest abdomen pelvis" -> {"chest"}
      [] t = "renal colic workup" -> {"renal colic"}
      [] t = "CT renal mass" -> {"renal mass"}
      [] t = "CT urogram" -> {"urogram"}
      [] t = "abdomen pelvis, malignancy staging" -> {"staging"}
      [] t = "acute abdominal pain" -> {"urgent"}
      [] t = "initial staging of malignancy" -> {"staging"}
      [] t = "acute pain, staging of malignancy" -> {"urgent", "staging"}
      [] t = "ovarian malignancy" -> {"gi ovarian"}
      [] t = "bowel study, special preparation" -> {"special prep"}
      [] t = "routine follow-up" -> {"follow-up"}
      [] OTHER -> {}

Mentions(v, kw) == v.k = "str" /\ kw \in Keywords(v.s)

\* A trigger phrase in the exam request or in the clinical information.
Indicated(info, kw) == Mentions(info.CT_Exam, kw) \/ Mentions(info.Clinical_Info, kw)

IsLocation(info, loc) == info.Location.k = "str" /\ info.Location.s = loc

Priority(info) ==
    IF IsLocation(info, "ER") THEN 1
    ELSE IF IsLocation(info, "IP") /\ Indicated(info, "urgent") THEN 1
    ELSE IF IsLocation(info, "IP") THEN 2
    ELSE IF IsLocation(info, "OP") /\ Indicated(info, "urgent") THEN 2
    ELSE IF Indicated(info, "staging") THEN 3
    ELSE 4

Protocol(info) ==
    IF Indicated(info, "renal colic") THEN "renal colic protocol"
    ELSE IF Indicated(info, "renal mass") THEN "renal mass protocol"
    ELSE IF Indicated(info, "urogram") THEN "CT urogram"
    ELSE IF Indicated(info, "chest") THEN "C/A/P"
    ELSE "A/P"

\* The renal-safety gate: a number below the threshold is contraindicated;
\* "no data" is unknown and does not force C-.
Contraindicated(e) == IsNumber(e) /\ e.n < EgfrThreshold

IvContrast(info, e) ==
    IF Indicated(info, "renal colic") THEN "C-"
    ELSE IF Contraindicated(e) THEN "C-"
    ELSE IF Indicated(info, "renal mass") THEN "C+ and C-"
    ELSE "C+"

OralContrast(info) ==
    IF Indicated(info, "gi ovarian") THEN "Water base"
    ELSE IF Indicated(info, "urogram") THEN "Water Only"
    ELSE IF Indicated(info, "special prep") THEN "Other"
    ELSE "None"

generate_protocol_recommendations(info, e) ==
    [priority |-> PyInt(Priority(info)),
     protocol |-> PyStr(Protocol(info)),
     iv_contrast |-> PyStr(IvContrast(info, e)),
     oral_contrast |-> PyStr(OralContrast(info))]

(***************************************************************************)
(* The dictionaries the loop builds.                                       *)
(***************************************************************************)
\* Mutant of BuildPatientInfo: Location read from the neighbouring column.
BuildPatientInfo_WrongColumn(row, e) ==
    [Study_ID |-> row[ColStudy],
     Location |-> row[ColSex],
     Age |-> row[ColAge],
     Sex |-> row[ColSex],
     CT_Exam |-> row[ColExam],
     Clinical_Info |-> row[ColClin],
     Prior_Reaction |-> row[ColPrior],
     eGFR |-> e,
     Creatinine |-> row[ColCreat]]

\* Lines 73-83.
BuildPatientInfo(row, e) ==
    [Study_ID |-> row[ColStudy],
     Location |-> row[ColLoc],
     Age |-> row[ColAge],
     Sex |-> row[ColSex],
     CT_Exam |-> row[ColExam],
     Clinical_Info |-> row[ColClin],
     Prior_Reaction |-> row[ColPrior],
     eGFR |-> e,
     Creatinine |-> row[ColCreat]]

CompletionKeys == {"priority", "protocol", "iv_contrast", "oral_contrast"}

\* Lines 89-95.
SuccessRecord(row, c) ==
    [Study_ID |-> row[ColStudy],
     Priority |-> c["priority"],
     Protocol |-> c["protocol"],
     IV_Contrast |-> c["iv_contrast"],
     Oral_Contrast |-> c["oral_contrast"]]

\* Lines 99-105.
FailureRecord(row) ==
    [Study_ID |-> row[ColStudy],
     Priority |-> None,
     Protocol |-> None,
     IV_Contrast |-> None,
     Oral_Contrast |-> None]

(***************************************************************************)
(* Input tables.  A row maps every column name to a cell; the table's      *)
(* columns are the same for all its rows, and a column the file lacks is   *)
(* absent from every row.                                                  *)
(***************************************************************************)
MaxRows == 3

Row(sid, loc, exam, clin, eg, creat) ==
    (ColStudy :> sid) @@ (ColLoc :> loc) @@ (ColAge :> PyInt(60)) @@
    (ColSex :> PyStr("F")) @@ (ColExam :> exam) @@ (ColClin :> clin) @@
    (ColPrior :> NaN) @@ (ColEgfr :> eg) @@ (ColCreat :> creat)

\* Tables read from the file: complete, or lacking one column.
ColumnChoices ==
    {AllColumns, AllColumns \ {ColStudy}, AllColumns \ {ColLoc}, AllColumns \ {ColEgfr}}

EgfrCells ==
    {NaN, PyFloat(15), PyFloat(90),
     PyStr("no data"), PyStr("No data"), PyStr("NO DATA"), PyStr("No Data"), PyStr(""),
     PyStr("no Data"), PyStr("nO dAtA"),
     PyStr(">90"), PyStr(" >90 "), PyStr("90"),
     PyStr("15"), PyStr(" 15 "), PyStr("29"), PyStr("30"), PyStr("120"), PyStr("abc")}

ExamCells ==
    {PyStr("CT abdomen pelvis"), PyStr("CT chest abdomen pelvis"),
     PyStr("renal colic workup"), PyStr("CT renal mass"), PyStr("CT urogram"),
     PyStr("abdomen pelvis, malignancy staging")}

ClinCells ==
    {NaN, PyStr("routine follow-up"), PyStr("acute abdominal pain"),
     PyStr("initial staging of malignancy"), PyStr("acute pain, staging of malignancy"),
     PyStr("ovarian malignancy"), PyStr("bowel study, special preparation")}

LocCells == {PyStr("ER"), PyStr("IP"), PyStr("OP")}

\* Rows for the per-record rules: every combination of the decision inputs.
RecordRows ==
    {Row(PyStr("S1"), loc, exam, clin, eg, creat) :
        loc \in LocCells, exam \in ExamCells, clin \in ClinCells,
        eg \in EgfrCells, creat \in {NaN, PyFloat(80)}}

\* Rows for the batch properties: good rows, rows whose eGFR does not parse,
\* rows with an empty required cell.
BatchRows ==
    {Row(PyStr("S1"), PyStr("ER"), PyStr("renal colic workup"), NaN, PyStr("15"), NaN),
     Row(PyStr("S2"), PyStr("OP"), PyStr("abdomen pelvis, malignancy staging"), NaN,
         NaN, PyFloat(80)),
     Row(PyStr("S3"), PyStr("IP"), PyStr("CT renal mass"), NaN, PyStr("abc"), NaN),
     Row(PyStr("S3"), PyStr("IP"), PyStr("CT renal mass"), NaN, PyStr(">90"), NaN),
     Row(NaN, PyStr("OP"), PyStr("CT abdomen pelvis"), PyStr("routine follow-up"),
         PyStr("120"), NaN),
     Row(PyStr("S4"), NaN, NaN, PyStr("acute abdominal pain"), PyStr("no Data"), NaN)}

Batches(universe, n) == UNION {[1..m -> universe] : m \in 0..n}

InitLoop ==
    /\ idx = 0
    /\ pc = "loop"
    /\ egfr = Unbound
    /\ patient_info = Unbound
    /\ completions = Unbound
    /\ results = <<>>

\* Line 47 (the table read) and line 53 (results = []).
Init ==
    /\ columns \in ColumnChoices
    /\ rows \in Batches(BatchRows, MaxRows)
    /\ InitLoop

\* One-row tables over all combinations of the decision inputs.
InitRecord ==
    /\ columns \in ColumnChoices
    /\ rows \in {<<r>> : r \in RecordRows}
    /\ InitLoop

(***************************************************************************)
(* The loop, one action per step of an iteration.                          *)
(***************************************************************************)
\* Line 54: the for statement takes the next row.
ForNext ==
    /\ pc = "loop"
    /\ idx < Len(rows)
    /\ idx' = idx + 1
    /\ pc' = "parse"
    /\ UNCHANGED <<columns, rows, egfr, patient_info, completions, results>>

\* Line 54: the table is exhausted; the cell goes on to line 107.
ForEnd ==
    /\ pc = "loop"
    /\ idx = Len(rows)
    /\ pc' = "done"
    /\ UNCHANGED <<columns, rows, idx, egfr, patient_info, completions, results>>

\* Mutant of ParseStep: a failed float() is swallowed and the iteration goes
\* on with whatever egfr holds.
ParseStep_SwallowError ==
    /\ pc = "parse"
    /\ LET r == ParseEgfr(RowGet(rows[idx], ColEgfr))
       IN /\ egfr' = IF r = ValueError THEN egfr ELSE r
          /\ pc' = "build"
    /\ UNCHANGED <<columns, rows, idx, patient_info, completions, results>>

\* Lines 57-70.
ParseStep ==
    /\ pc = "parse"
    /\ LET r == ParseEgfr(RowGet(rows[idx], ColEgfr))
       IN IF r = ValueError
          THEN pc' = "except" /\ egfr' = egfr
          ELSE pc' = "build" /\ egfr' = r
    /\ UNCHANGED <<columns, rows, idx, patient_info, completions, results>>

\* Lines 73-83: row[...] raises KeyError for a column the table lacks, and
\* reading egfr raises NameError while it is unassigned.
BuildStep ==
    /\ pc = "build"
    /\ IF IndexedColumns \subseteq columns /\ egfr # Unbound
       THEN pc' = "decide" /\ patient_info' = BuildPatientInfo(rows[idx], egfr)
       ELSE pc' = "except" /\ patient_info' = patient_info
    /\ UNCHANGED <<columns, rows, idx, egfr, completions, results>>

\* Line 86, with the decision engine of the specification.
DecideStep ==
    /\ pc = "decide"
    /\ completions' = generate_protocol_recommendations(patient_info, egfr)
    /\ pc' = "store"
    /\ UNCHANGED <<columns, rows, idx, egfr, patient_info, results>>

\* Lines 89-95: a key the returned dict lacks raises KeyError before append.
StoreStep ==
    /\ pc = "store"
    /\ IF CompletionKeys \subseteq DOMAIN completions /\ ColStudy \in columns
       THEN pc' = "loop" /\ results' = Append(results, SuccessRecord(rows[idx], completions))
       ELSE pc' = "except" /\ results' = results
    /\ UNCHANGED <<columns, rows, idx, egfr, patient_info, completions>>

\* Lines 97-105: the handler reads row['Study ID #'] itself; when the table
\* lacks that column the KeyError leaves the handler and ends the cell.
ExceptStep ==
    /\ pc = "except"
    /\ IF ColStudy \in columns
       THEN pc' = "loop" /\ results' = Append(results, FailureRecord(rows[idx]))
       ELSE pc' = "crashed" /\ results' = results
    /\ UNCHANGED <<columns, rows, idx, egfr, patient_info, completions>>

Next ==
    \/ ForNext
    \/ ForEnd
    \/ ParseStep
    \/ BuildStep
    \/ DecideStep
    \/ StoreStep
    \/ ExceptStep

Spec == Init /\ [][Next]_vars

SpecRecord == InitRecord /\ [][Next]_vars

(***************************************************************************)
(* The same loop with the callee left open: line 86 may return any dict    *)
(* or raise.  The loop copies what it gets (lines 89-95).                  *)
(***************************************************************************)
\* What a call may return: the rule table's answer, the same with one value
\* None, the same with one key missing.
PossibleReturns(info, e) ==
    LET good == generate_protocol_recommendations(info, e)
    IN {good,
        [good EXCEPT !["priority"] = None],
        [good EXCEPT !["oral_contrast"] = None],
        [key \in CompletionKeys \ {"oral_contrast"} |-> good[key]]}

\* Line 86: the call returns.
CallReturns ==
    /\ pc = "decide"
    /\ completions' \in PossibleReturns(patient_info, egfr)
    /\ pc' = "store"
    /\ UNCHANGED <<columns, rows, idx, egfr, patient_info, results>>

\* Line 86: the call raises.
CallRaises ==
    /\ pc = "decide"
    /\ pc' = "except"
    /\ UNCHANGED <<columns, rows, idx, egfr, patient_info, completions, results>>

NextOpenCallee ==
    \/ ForNext
    \/ ForEnd
    \/ ParseStep
    \/ BuildStep
    \/ CallReturns
    \/ CallRaises
    \/ StoreStep
    \/ ExceptStep

SpecOpenCallee == Init /\ [][NextOpenCallee]_vars

(***************************************************************************)
(* Vocabulary of the properties.                                           *)
(***************************************************************************)
DecisionFields(r) == <<r.Priority, r.Protocol, r.IV_Contrast, r.Oral_Contrast>>

IsNullRecord(r) == \A f \in 1..4 : DecisionFields(r)[f] = None

IsPopulated(r) == \A f \in 1..4 : DecisionFields(r)[f].k # "none"

\* No KeyError can arise while patient_info is built.
TableComplete == IndexedColumns \subseteq columns

\* The eGFR cell as the loop reads it.
RawEgfr(row) == RowGet(row, ColEgfr)

\* The only renal stone/colic request among the inputs.
IsStoneRow(row) == row[ColExam] = PyStr("renal colic workup")

IsMassRow(row) == row[ColExam] = PyStr("CT renal mass")

Done(i) == i \in 1..Len(results)

\* eGFR cells that read as a number below 30.
LowEgfrCells == {PyFloat(15), PyStr("15"), PyStr(" 15 "), PyStr("29")}

\* ">90" with and without surrounding whitespace; the cells that read 90.
Gt90Cells == {PyStr(">90"), PyStr(" >90 ")}

Numeric90Cells == {PyStr("90"), PyFloat(90)}

\* The cells the loop turns into "no data": a missing cell, a missing column
\* (None) and the five listed strings.
RecognisedNoDataCells ==
    {NaN, None, PyStr("no data"), PyStr("No data"), PyStr("NO DATA"), PyStr("No Data"),
     PyStr("")}

\* str.lower() on the eGFR strings.
Lower(t) ==
    IF t \in {"no data", "No data", "NO DATA", "No Data", "no Data", "nO dAtA"}
    THEN "no data"
    ELSE t

IsNoDataText(v) == v.k = "str" /\ (Lower(v.s) = "no data" \/ v.s = "")

(***************************************************************************)
(* Properties.                                                             *)
(***************************************************************************)

\* C1: a row whose eGFR reads as a number below 30, in a table with every
\* column, gets a populated record with IV_Contrast = "C-", whatever its
\* location, exam request, clinical text and creatinine are.
C1_RenalSafetyGate ==
    \A i \in 1..Len(results) :
        (TableComplete /\ RawEgfr(rows[i]) \in LowEgfrCells)
            => /\ IsPopulated(results[i])
               /\ results[i].IV_Contrast = PyStr("C-")

\* A mass-characterization request with eGFR 15 was recorded as C-.
C1_Witness ==
    \E i \in 1..Len(results) :
        /\ RawEgfr(rows[i]) = PyStr("15")
        /\ IsMassRow(rows[i])
        /\ results[i].IV_Contrast = PyStr("C-")
        /\ results[i].Protocol = PyStr("renal mass protocol")

\* C2 as stated: whenever an exception has been raised in the try body, the
\* handler appends an all-None record for the row and the loop goes on.
C2_FailureAppendsNullAndContinues ==
    [][pc = "except" =>
        /\ pc' = "loop"
        /\ Len(results') = Len(results) + 1
        /\ IsNullRecord(results'[Len(results')])]_vars

\* C3 as stated: every record in results has its four decision fields all
\* None or all populated, whatever the decision call returned.
C3_AllNullOrAllPopulated ==
    \A i \in 1..Len(results) : IsNullRecord(results[i]) \/ IsPopulated(results[i])

\* A required field (study id, location, exam requested) is absent from a
\* row: its cell is empty or the table lacks the column.
RequiredAbsent(row) ==
    \E c \in {ColStudy, ColLoc, ColExam} : c \notin columns \/ row[c] = NaN

\* C4 as stated: a row with a required field absent gets an all-None
\* record, and the batch is not stopped by it.
C4_MissingRequiredFieldGivesNullRecord ==
    /\ pc # "crashed"
    /\ \A i \in 1..Len(results) : RequiredAbsent(rows[i]) => IsNullRecord(results[i])

C6_NoDataAnyCase ==
    (/\ pc \in {"build", "except"}
     /\ TableComplete
     /\ IsNoDataText(RawEgfr(rows[idx])))
        => pc = "build" /\ egfr = PyStr("no data")

\* C7: a row whose eGFR is missing or one of the recognised "no data"
\* strings, in a table with the columns patient_info reads, gets a populated
\* record, and its IV_Contrast is C- only for a renal stone/colic request.
C7_NoDataDoesNotForceCMinus ==
    \A i \in 1..Len(results) :
        (TableComplete /\ RawEgfr(rows[i]) \in RecognisedNoDataCells)
            => /\ IsPopulated(results[i])
               /\ results[i].IV_Contrast \in {PyStr("C-"), PyStr("C+"), PyStr("C+ and C-")}
               /\ results[i].IV_Contrast = PyStr("C-") => IsStoneRow(rows[i])

\* A mass-characterization request without eGFR got dual-phase contrast.
C7_Witness ==
    \E i \in 1..Len(results) :
        /\ RawEgfr(rows[i]) \in {NaN, None}
        /\ IsMassRow(rows[i])
        /\ results[i].IV_Contrast = PyStr("C+ and C-")

\* eGFR cells that are neither a number, ">90" nor a listed "no data" string.
UnparseableEgfrCells == {PyStr("no Data"), PyStr("nO dAtA"), PyStr("abc")}

\* C8: an Emergency Room row whose eGFR cell parses gets a populated record,
\* and every populated record of an Emergency Room row has Priority 1,
\* whatever its exam request, clinical text and eGFR are.
C8_EmergencyRoomIsPriority1 ==
    \A i \in 1..Len(results) :
        (TableComplete /\ rows[i][ColLoc] = PyStr("ER"))
            => /\ RawEgfr(rows[i]) \notin UnparseableEgfrCells => IsPopulated(results[i])
               /\ IsPopulated(results[i]) => results[i].Priority = PyInt(1)

\* An Emergency Room row with staging language and without eGFR was given
\* Priority 1.
C8_Witness ==
    \E i \in 1..Len(results) :
        /\ rows[i][ColLoc] = PyStr("ER")
        /\ rows[i][ColClin] = PyStr("initial staging of malignancy")
        /\ rows[i][ColExam] = PyStr("CT abdomen pelvis")
        /\ results[i].Priority = PyInt(1)

\* C9 as stated: results grows by one record per row taken, and when the
\* loop has ended it holds one record per input row, in order, each with its
\* row's study id.
C9_OneRecordPerRowInOrder ==
    /\ pc = "loop" => Len(results) = idx
    /\ pc \in {"done", "crashed"} => Len(results) = Len(rows)
    /\ \A i \in 1..Len(results) : results[i].Study_ID = rows[i][ColStudy]

\* Two rows with the same cells.
SameRow(a, b) == \A c \in columns : a[c] = b[c]

\* C10: two rows of a batch with the same cells have the same four decision
\* fields, wherever they stand and whatever rows came before them.
C10_SameRowSameDecision ==
    \A i, j \in 1..Len(results) :
        SameRow(rows[i], rows[j]) => DecisionFields(results[i]) = DecisionFields(results[j])

\* A row whose eGFR does not parse was processed first and again after a row
\* that succeeded, and failed both times.
C10_Witness ==
    /\ Len(results) = 3
    /\ SameRow(rows[1], rows[3])
    /\ RawEgfr(rows[1]) = PyStr("abc")
    /\ IsNullRecord(results[1])
    /\ IsPopulated(results[2])
    /\ IsNullRecord(results[3])

====
